---------------------------- MODULE Spec2Model ----------------------------
(***************************************************************************)
(* The image-to-shopping-result pipeline of streamlit_app.py: main() and   *)
(* the functions it sequences (process_twilio_messages, list_image_paths,  *)
(* analyze_images, get_gender, extract_user_concepts, add_tags,            *)
(* search_ebay_with_concepts, send_results_via_twilio, delete_photos).     *)
(*                                                                         *)
(* Python dicts are functions whose DOMAIN is the set of keys present, so  *)
(* a missing key (data['prediction'], concept['tags']) is a KeyError the   *)
(* model can see.  Confidences are integers in units of 10^-7.  An         *)
(* uncaught exception moves pc to "crashed" and names itself in error.     *)
(***************************************************************************)
EXTENDS Integers, Sequences, FiniteSets, TLC

VARIABLES
    pc,            \* position of the running function
    folder,        \* files under FOLDER_PATH/<from_number>
    message_data,  \* main(): result of process_twilio_messages
    image_data,    \* main(): list of image dicts (url_image_data, prediction_responses)
    gender,        \* main(): result of get_gender
    concepts,      \* main(): user_concepts / tagged_concepts, a list of dicts
    cur,           \* 1-based index of the loop in progress over image_data / concepts
    concept_name,  \* search_ebay_with_concepts: the (gender, extracted name) tuple
    category_id,   \* search_ebay_with_concepts: get_category(concept_name)
    endpoint,      \* search_ebay_with_concepts: the request URL of the candidate
    attempt,       \* search_ebay_with_concepts: retry loop counter
    response,      \* search_ebay_with_concepts: the last response of requests.post
    affiliate_id,  \* search_ebay_with_concepts: the affiliate id passed by the caller
    calls,         \* get_gender: the answers of its model calls, and the calls made
    posts,         \* status codes of the POSTs issued for the current candidate
    sleeps,        \* seconds passed to time.sleep for the current candidate
    st_log,        \* the "Error occurred" lines written by the except clauses
    sent,          \* bodies of the SMS created by send_results_via_twilio
    error,         \* the uncaught exception that ended the run, or NoError
    twilio,        \* the number of media messages the Twilio number has received
    polled,        \* polling loop: message_data, the data of the message just polled
    last_message,  \* polling loop: the value the last main() returned
    processed      \* the values main() has returned to the polling loop, in order

vars == <<pc, folder, message_data, image_data, gender, concepts, cur, concept_name,
          category_id, endpoint, attempt, response, affiliate_id, calls, posts, sleeps,
          st_log, sent, error, twilio, polled, last_message, processed>>

\* the variables of the polling loop and of the Twilio side
pollVars == <<twilio, polled, last_message, processed>>

-----------------------------------------------------------------------------
(* Values *)

\* Python's None
None == "<None>"

\* get_gender has made no model call
NoCalls == [face |-> <<>>, gender |-> <<>>, face_used |-> 0, gender_used |-> 0]

\* the empty string "", as the value last_message starts with and main() returns
\* when there is no message: it equals no list of dicts
EmptyStr == <<>>

\* no uncaught exception so far
NoError == "<no error>"

\* a local variable not assigned yet
Unset == "<unset>"

\* d[k] = v on a dict
SetKey(d, k, v) == [f \in DOMAIN d \cup {k} |-> IF f = k THEN v ELSE d[f]]

\* repr() of a str or None, as the f-string of a tuple prints its members
Repr(x) == IF x = None THEN "None" ELSE "'" \o x \o "'"

\* str() of a 2-tuple
TupleStr(t) == "(" \o Repr(t[1]) \o ", " \o Repr(t[2]) \o ")"

-----------------------------------------------------------------------------
(* Configuration and the category table *)

THRESHOLD == 8000000

FOLDER_PATH == "twilio_pics"

EBAY_API_ENDPOINT == "https://api.ebay.com/buy/browse/v1/item_summary/search_by_image"

DEFAULT_CATEGORY == "11450"

\* the dict literal, one <<gender, concept, category id>> per entry, in source order
CONCEPT_TO_CATEGORY == {
    <<"women", "bag", "169291">>,
    <<"men", "bag", "169291">>,
    <<"men", "belt", "2993">>,
    <<"women", "belt", "3003">>,
    <<"men", "bowtie", "15662">>,
    <<"men", "bracelet", "137835">>,
    <<"women", "bracelet", "164315">>,
    <<"women", "dress", "63861">>,
    <<"men", "earrings", "137856">>,
    <<"women", "earrings", "164321">>,
    <<"women", "glasses", "180957">>,
    <<"men", "glasses", "180957">>,
    <<"men", "gloves", "52347">>,
    <<"women", "gloves", "105559">>,
    <<"women", "hair clip", "110627">>,
    <<"men", "hat", "52365">>,
    <<"women", "hat", "3004">>,
    <<"women", "headband", "163628">>,
    <<"women", "hosiery", "11511">>,
    <<"men", "hosiery", "4250">>,
    <<"women", "jumpsuit", "3009">>,
    <<"men", "jumpsuit", "57988">>,
    <<"men", "mittens", "52347">>,
    <<"women", "mittens", "105559">>,
    <<"men", "necklace", "137860">>,
    <<"women", "necklace", "164329">>,
    <<"men", "necktie", "15662">>,
    <<"men", "outerwear", "57988">>,
    <<"women", "outerwear", "63862">>,
    <<"men", "pants", "57989">>,
    <<"women", "pants", "63863">>,
    <<"women", "pin/brooch", "110626">>,
    <<"men", "pocket square", "15662">>,
    <<"men", "ring", "137856">>,
    <<"women", "ring", "164343">>,
    <<"women", "romper", "63861">>,
    <<"men", "scarf", "52366">>,
    <<"women", "scarf", "45238">>,
    <<"men", "shoes", "93427">>,
    <<"women", "shoes", "3034">>,
    <<"men", "shorts", "15689">>,
    <<"women", "shorts", "11555">>,
    <<"women", "skirt", "63864">>,
    <<"men", "socks", "4250">>,
    <<"women", "socks", "11511">>,
    <<"men", "sunglasses", "179247">>,
    <<"women", "sunglasses", "179247">>,
    <<"men", "suspenders", "15662">>,
    <<"men", "swimwear", "15690">>,
    <<"women", "swimwear", "63867">>,
    <<"men", "tie clip", "15662">>,
    <<"women", "top", "53159">>,
    <<"men", "top", "1059">>,
    <<"men", "vest", "15691">>,
    <<"women", "vest", "63866">>,
    <<"men", "watch", "31387">>,
    <<"women", "watch", "31387">>,
    <<"men", "t-shirt", "15687">>,
    <<"women", "t-shirt", "15724">>,
    <<"men", "jeans", "11483">>,
    <<"women", "jeans", "11554">>,
    <<"men", "jacket", "57988">>,
    <<"women", "jacket", "63862">>,
    <<"men", "coat", "57988">>,
    <<"women", "coat", "63862">>,
    <<"men", "suit", "3001">>,
    <<"women", "suit", "63865">>,
    <<"men", "sweater", "11484">>,
    <<"women", "sweater", "63866">>,
    <<"women", "blouse", "53159">>,
    <<"men", "hoodie", "11484">>,
    <<"women", "hoodie", "63866">>,
    <<"women", "cardigan", "63866">>,
    <<"men", "cardigan", "11484">>,
    <<"women", "leggings", "169001">>,
    <<"women", "bikini", "63867">>,
    <<"women", "gown", "15720">>,
    <<"men", "cape", "57988">>,
    <<"women", "cape", "63862">>,
    <<"men", "mask", "183477">>,
    <<"women", "mask", "183477">>,
    <<"men", "overalls", "57988">>,
    <<"women", "overalls", "11554">>,
    <<"men", "poncho", "57988">>,
    <<"women", "poncho", "63862">>,
    <<"women", "sarong", "63867">>,
    <<"women", "shawl", "45238">>,
    <<"men", "sleepwear", "11510">>,
    <<"women", "sleepwear", "63861">>,
    <<"men", "tracksuit", "15692">>,
    <<"women", "tracksuit", "11554">>,
    <<"men", "trousers", "57989">>,
    <<"women", "trousers", "63863">>,
    <<"men", "backpack", "169291">>,
    <<"women", "backpack", "169291">>,
    <<"women", "bandeau", "63867">>,
    <<"men", "beanie", "52382">>,
    <<"women", "beanie", "52382">>,
    <<"men", "beret", "52382">>,
    <<"women", "beret", "52382">>,
    <<"men", "bermuda shorts", "15689">>,
    <<"women", "bermuda shorts", "11555">>,
    <<"men", "biker jacket", "57988">>,
    <<"women", "biker jacket", "63862">>,
    <<"women", "bikini bottom", "63867">>,
    <<"women", "bikini set", "63867">>,
    <<"women", "bikini top", "63867">>,
    <<"men", "blazer", "3002">>,
    <<"women", "blazer", "63865">>,
    <<"women", "boatneck/bateau", "53159">>,
    <<"men", "bomber", "57988">>,
    <<"women", "bomber", "63862">>,
    <<"women", "booties", "3034">>,
    <<"women", "bra", "63853">>,
    <<"unisex", "bucket hat", "52382">>,
    <<"women", "camisole", "11514">>,
    <<"men", "cape/poncho", "57988">>,
    <<"women", "cape/poncho", "63862">>,
    <<"women", "capris", "63863">>,
    <<"women", "capsleeve", "53159">>,
    <<"men", "cargo pants", "57989">>,
    <<"women", "cargo pants", "63863">>,
    <<"men", "cargo shorts", "15689">>,
    <<"women", "cargo shorts", "11555">>,
    <<"men", "denim jacket", "57988">>,
    <<"women", "denim jacket", "63862">>,
    <<"men", "duffle coat", "57988">>,
    <<"women", "duffle coat", "63862">>,
    <<"unisex", "fedora", "52382">>,
    <<"men", "field jacket", "57988">>,
    <<"women", "field jacket", "63862">>,
    <<"women", "flats", "3034">>,
    <<"men", "fleece", "11484">>,
    <<"women", "fleece", "63866">>,
    <<"men", "flip-flops", "11504">>,
    <<"women", "flip-flops", "3034">>,
    <<"women", "floppy hat", "3004">>,
    <<"women", "halter", "11514">>,
    <<"men", "loafers", "93427">>,
    <<"women", "loafers", "3034">>,
    <<"women", "maxi dress", "63861">>,
    <<"women", "maxi skirt", "63864">>,
    <<"women", "midi dress", "63861">>,
    <<"women", "midi skirt", "63864">>,
    <<"women", "mini dress", "63861">>,
    <<"women", "mini skirt", "63864">>,
    <<"women", "mockneck", "53159">>,
    <<"women", "mules", "3034">>,
    <<"unisex", "newsboy/flat cap", "52382">>,
    <<"women", "one piece swimsuit", "63867">>,
    <<"men", "oxfords", "93427">>,
    <<"women", "oxfords", "3034">>,
    <<"men", "pajamas", "11510">>,
    <<"women", "pajamas", "63861">>,
    <<"men", "parka", "57988">>,
    <<"women", "parka", "63862">>,
    <<"men", "peacoat", "57988">>,
    <<"women", "peacoat", "63862">>,
    <<"men", "polo", "1059">>,
    <<"women", "polo", "53159">>,
    <<"men", "puffer coat", "57988">>,
    <<"women", "puffer coat", "63862">>,
    <<"men", "puffer vest", "15691">>,
    <<"women", "puffer vest", "63866">>,
    <<"women", "pumps", "3034">>,
    <<"men", "rain boots", "93427">>,
    <<"women", "rain boots", "3034">>,
    <<"men", "sandals", "11504">>,
    <<"women", "sandals", "3034">>,
    <<"women", "satchel", "169291">>,
    <<"men", "shirt", "1059">>,
    <<"women", "shirt", "53159">>,
    <<"men", "short-sleeve", "1059">>,
    <<"women", "short-sleeve", "53159">>,
    <<"women", "shortalls", "11554">>,
    <<"women", "sleeveless", "53159">>,
    <<"men", "sleeveless", "1059">>,
    <<"women", "shoulder bag", "169291">>,
    <<"men", "sneakers", "93427">>,
    <<"women", "sneakers", "3034">>,
    <<"women", "spaghetti strap", "11514">>,
    <<"women", "strapless", "53159">>,
    <<"men", "suit jacketsuit pants", "3001">>,
    <<"men", "sweater vest", "11484">>,
    <<"women", "sweater vest", "63866">>,
    <<"men", "sweatpants", "11510">>,
    <<"women", "sweatpants", "11554">>,
    <<"men", "sweatshirt", "11484">>,
    <<"women", "sweatshirt", "63866">>,
    <<"men", "swim trunks", "15690">>,
    <<"men", "tank", "15692">>,
    <<"women", "tank", "11514">>,
    <<"women", "tote bag", "169291">>,
    <<"unisex", "trapper hat", "52382">>,
    <<"men", "trenchcoat", "57988">>,
    <<"women", "trenchcoat", "63862">>,
    <<"men", "waistcoat", "15691">>,
    <<"women", "waistcoat", "63865">>,
    <<"women", "wedges", "3034">>,
    <<"women", "wide leg pants", "63863">>,
    <<"women", "wristlet and clutch", "169291">>
}

HasKey(concept) == \E e \in CONCEPT_TO_CATEGORY : <<e[1], e[2]>> = concept

\* CONCEPT_TO_CATEGORY[concept]
TableValue(concept) == (CHOOSE e \in CONCEPT_TO_CATEGORY : <<e[1], e[2]>> = concept)[3]

\* dict.get without a default: None for a missing key
get_category_nodefault(concept) == IF HasKey(concept) THEN TableValue(concept) ELSE None

\* CONCEPT_TO_CATEGORY.get(concept, DEFAULT_CATEGORY)
get_category(concept) == IF HasKey(concept) THEN TableValue(concept) ELSE DEFAULT_CATEGORY

-----------------------------------------------------------------------------
(* Twilio messages and the files they leave on disk *)

\* str(i) of a media index
IndexStr(i) ==
    CASE i = 0 -> "0" [] i = 1 -> "1" [] i = 2 -> "2" [] i = 3 -> "3" [] OTHER -> "4"

\* save_media: the file written for media item number media_index of a message; a
\* Content-Type is [type, subtype], "image" in content_type being type = "image"
save_media(content_type, from_number, msg_sid, media_index) ==
    LET extension == IF content_type.type = "image" THEN "png" ELSE content_type.subtype
    IN  [dir |-> from_number,
         name |-> msg_sid \o "_" \o IndexStr(media_index) \o "." \o extension,
         ext |-> extension]

\* os.path.join(FOLDER_PATH, from_number, name)
PathOf(file) == FOLDER_PATH \o "/" \o file.dir \o "/" \o file.name

\* download_media: the files saved, in order; an item whose GET is not 200 is skipped
RECURSIVE download_media(_, _, _, _)
download_media(media_list, from_number, msg_sid, i) ==
    IF i > Len(media_list) THEN <<>>
    ELSE LET media == media_list[i]
             rest == download_media(media_list, from_number, msg_sid, i + 1)
         IN  IF media.status_code = 200
             THEN <<save_media(media.content_type, from_number, msg_sid, i - 1)>> \o rest
             ELSE rest

\* the set of the elements of a sequence
Range(seq) == {seq[i] : i \in DOMAIN seq}

\* the dict process_twilio_messages returns for the most recent message with media
MessageData(msg) ==
    LET files == download_media(msg.media, msg.from_, msg.sid, 1)
        entry == [media_path |-> [i \in DOMAIN files |-> PathOf(files[i])],
                  file_names |-> [i \in DOMAIN files |-> files[i].name]]
    IN  [n \in {msg.from_} |-> <<entry>>]

\* the files process_twilio_messages leaves in FOLDER_PATH for that message
SavedFiles(msg) == Range(download_media(msg.media, msg.from_, msg.sid, 1))

\* image_path.endswith(('.png', '.jpg', '.jpeg'))
IsImagePath(file) == file.ext \in {"png", "jpg", "jpeg"}

\* list_image_paths: only the first entry of os.listdir is looked at (the break
\* sits in the loop body, outside the if); first is that entry, any file of the folder
list_image_paths(files, phone_number, first) ==
    IF first \in files /\ first.dir = phone_number /\ IsImagePath(first)
    THEN <<[phone_number |-> phone_number, image_path |-> PathOf(first), url |-> ""]>>
    ELSE <<>>

\* get_public_url; the file names of the model hold no character that quote() escapes
get_public_url(bucket_name, object_key) ==
    "https://" \o bucket_name \o ".s3.amazonaws.com/" \o object_key

-----------------------------------------------------------------------------
(* Model responses and the pure functions over them *)

\* an external call that raises
Raise == [raises |-> TRUE]

\* a PredictionResponse: outputs is a list, each output the list of its data.regions
\* (detection, face) or of its data.concepts (classification, gender)
Resp(outs) == [raises |-> FALSE, outputs |-> outs]

\* a region: its bounding box <<top_row, left_col, bottom_row, right_col>> in
\* thousandths of the image side, and its concepts
Region(box, cs) == [bounding_box |-> box, concepts |-> cs]

Concept(n, v) == [name |-> n, value |-> v]

\* the name kept as the model wrote it
Lower_kept(name) == name

\* str.lower() over the names of the model
Lower(name) ==
    CASE name = "Jacket" -> "jacket"
      [] name = "SCARF" -> "scarf"
      [] OTHER -> name

\* Image.size of the stored photos: <<width, height>>
ImageSize(image_path) ==
    IF image_path = "twilio_pics/+15550001/SM2_1.png" THEN <<640, 480>> ELSE <<1000, 500>>

\* int(round(n / d)) as Image.crop rounds a coordinate: half to even, n >= 0, d > 0
RoundDiv(n, d) ==
    LET q == n \div d
        r == n % d
    IN  IF 2 * r > d \/ (2 * r = d /\ q % 2 = 1) THEN q + 1 ELSE q

\* the rows taken along the width and the columns along the height
crop_image_swapped(image_path, top_row, left_col, bottom_row, right_col) ==
    LET width == ImageSize(image_path)[1]
        height == ImageSize(image_path)[2]
    IN  [image_path |-> image_path,
         crop |-> <<RoundDiv(top_row * width, 1000), RoundDiv(left_col * height, 1000),
                    RoundDiv(bottom_row * width, 1000), RoundDiv(right_col * height, 1000)>>]

\* crop_image: the rectangle (left*W, top*H, right*W, bottom*H) of the image, each
\* coordinate rounded to a pixel by Image.crop
crop_image(image_path, top_row, left_col, bottom_row, right_col) ==
    LET width == ImageSize(image_path)[1]
        height == ImageSize(image_path)[2]
    IN  [image_path |-> image_path,
         crop |-> <<RoundDiv(left_col * width, 1000), RoundDiv(top_row * height, 1000),
                    RoundDiv(right_col * width, 1000), RoundDiv(bottom_row * height, 1000)>>]

\* Image.crop on a rectangle with right < left or lower < upper: recent versions
\* of the imaging library raise ValueError, earlier ones return an empty image; the
\* repository pins no version.  box is <<top_row, left_col, bottom_row, right_col>>.
Inverted(box) == box[3] < box[1] \/ box[4] < box[2]

\* the test of line 506 with >= for >
PassesThreshold_ge(value) == value >= THRESHOLD

\* concept.value > THRESHOLD
PassesThreshold(value) == value > THRESHOLD

\* at most one dict per region
RegionConcepts_one(image_path, region) ==
    LET box == region.bounding_box
        kept == SelectSeq(region.concepts, LAMBDA c : PassesThreshold(c.value))
    IN  [k \in 1..(IF kept = <<>> THEN 0 ELSE 1) |->
            [concept_image |-> crop_image(image_path, box[1], box[2], box[3], box[4]),
             concept_name |-> Lower(kept[k].name)]]

\* the inner loop of extract_user_concepts: one dict per concept of the region
\* that passes the threshold, in order, each with the crop of the region
RegionConcepts(image_path, region) ==
    LET box == region.bounding_box
        kept == SelectSeq(region.concepts, LAMBDA c : PassesThreshold(c.value))
    IN  [k \in 1..Len(kept) |->
            [concept_image |-> crop_image(image_path, box[1], box[2], box[3], box[4]),
             concept_name |-> Lower(kept[k].name)]]

\* the regions taken last to first
RECURSIVE RegionsConcepts_rev(_, _)
RegionsConcepts_rev(image_path, regions) ==
    IF regions = <<>> THEN <<>>
    ELSE RegionsConcepts_rev(image_path, Tail(regions))
         \o RegionConcepts(image_path, Head(regions))

RECURSIVE RegionsConcepts(_, _)
RegionsConcepts(image_path, regions) ==
    IF regions = <<>> THEN <<>>
    ELSE RegionConcepts(image_path, Head(regions))
         \o RegionsConcepts(image_path, Tail(regions))

\* extract_user_concepts reads data['prediction'] of every image of the user:
\* a KeyError when analyze_images did not set it
ExtractRaises(prediction_responses, user_phone) ==
    \E i \in DOMAIN prediction_responses :
        /\ prediction_responses[i].phone_number = user_phone
        /\ "prediction" \notin DOMAIN prediction_responses[i]

\* extract_user_concepts crops an inverted rectangle: a region of an image of the
\* user has such a box and a concept above the threshold
CropsInverted(prediction_responses, user_phone) ==
    \E i \in DOMAIN prediction_responses :
        /\ prediction_responses[i].phone_number = user_phone
        /\ prediction_responses[i].prediction.outputs # <<>>
        /\ \E r \in DOMAIN prediction_responses[i].prediction.outputs[1] :
              LET region == prediction_responses[i].prediction.outputs[1][r]
              IN  /\ Inverted(region.bounding_box)
                  /\ \E k \in DOMAIN region.concepts :
                        PassesThreshold(region.concepts[k].value)

\* extract_user_concepts, when it does not raise
RECURSIVE extract_user_concepts(_, _)
extract_user_concepts(prediction_responses, user_phone) ==
    IF prediction_responses = <<>> THEN <<>>
    ELSE LET data == Head(prediction_responses)
             rest == extract_user_concepts(Tail(prediction_responses), user_phone)
         IN  IF data.phone_number = user_phone /\ data.prediction.outputs # <<>>
             THEN RegionsConcepts(data.image_path, data.prediction.outputs[1]) \o rest
             ELSE rest

\* extract_concepts(str(tags)): the first name: "<value>" of the printed concept
\* list, which prints one name field per concept, in order; None when there is none
extract_concepts(tags) == IF tags # <<>> THEN tags[1].name ELSE None

-----------------------------------------------------------------------------
(* get_gender *)

\* concept.value > THRESHOLD on a face region (line 541)
FacePasses(value) == value > THRESHOLD

\* the number of (region, concept) pairs of a face response that pass the threshold:
\* get_gender calls the gender model once for each, until one call succeeds
RECURSIVE FacePassCount(_)
FacePassCount(regions) ==
    IF regions = <<>> THEN 0
    ELSE Len(SelectSeq(Head(regions).concepts, LAMBDA c : FacePasses(c.value)))
         + FacePassCount(Tail(regions))

\* the first concept of the list, whatever its value
TopConcept_first(concepts_list) == concepts_list[1]

\* max(concepts_list, key=value): the first concept of the greatest value
TopConcept(concepts_list) ==
    concepts_list[CHOOSE i \in DOMAIN concepts_list :
        \A j \in DOMAIN concepts_list :
            \/ concepts_list[i].value > concepts_list[j].value
            \/ concepts_list[i].value = concepts_list[j].value /\ i <= j]

\* lines 562-565
GenderOfTop(top_gender) == IF top_gender = "Masculine" THEN "men" ELSE "women"

\* a gender call that returns: it has outputs and max() has a concept to pick
GenderCallSucceeds(call) ==
    /\ ~call.raises
    /\ call.outputs # <<>>
    /\ call.outputs[1] # <<>>

\* a gender call the inner except clause catches: the call raised, or max() of an
\* empty concept list raised
GenderCallCaught(call) ==
    \/ call.raises
    \/ call.outputs # <<>> /\ call.outputs[1] = <<>>

\* the n gender calls made for one image, gender_calls[k] being the outcome of the
\* k-th: found with the gender of the first call that succeeds, and the calls used
RECURSIVE GenderOfCalls(_, _, _)
GenderOfCalls(n, gender_calls, k) ==
    IF k > n \/ k > Len(gender_calls)
    THEN [found |-> FALSE, gender |-> None, used |-> k - 1]
    ELSE IF GenderCallSucceeds(gender_calls[k])
         THEN [found |-> TRUE,
               gender |-> GenderOfTop(TopConcept(gender_calls[k].outputs[1]).name),
               used |-> k]
         ELSE GenderOfCalls(n, gender_calls, k + 1)

\* get_gender: face_calls[i] is the outcome of the face model on image i,
\* gender_calls the outcomes of the successive gender model calls.  result is the
\* value returned (None when the loop runs out), log the error lines written,
\* face_used and gender_used the numbers of calls made to the two models.
RECURSIVE get_gender(_, _, _)
get_gender(url_image_data, face_calls, gender_calls) ==
    IF url_image_data = <<>>
    THEN [result |-> None, log |-> <<>>, face_used |-> 0, gender_used |-> 0]
    ELSE LET face == Head(face_calls)
         IN  IF face.raises
             THEN [result |-> "women", log |-> <<"get_gender">>,
                   face_used |-> 1, gender_used |-> 0]
             ELSE LET n == IF face.outputs = <<>> THEN 0
                           ELSE FacePassCount(face.outputs[1])
                      r == GenderOfCalls(n, gender_calls, 1)
                      caught == SelectSeq(SubSeq(gender_calls, 1, r.used),
                                          LAMBDA c : GenderCallCaught(c))
                      log == [i \in DOMAIN caught |-> "get_gender"]
                  IN  IF r.found
                      THEN [result |-> r.gender, log |-> log,
                            face_used |-> 1, gender_used |-> r.used]
                      ELSE LET rest == get_gender(Tail(url_image_data), Tail(face_calls),
                                           SubSeq(gender_calls, r.used + 1, Len(gender_calls)))
                           IN  [result |-> rest.result, log |-> log \o rest.log,
                                face_used |-> 1 + rest.face_used,
                                gender_used |-> r.used + rest.gender_used]

-----------------------------------------------------------------------------
(* search_ebay_with_concepts: the pure parts *)

\* attempts = 3
attempts == 3

\* one attempt too many
InRange_le(i) == i <= attempts

\* for attempt in range(attempts): whether the loop runs for index i
InRange(i) == i < attempts

\* a retry on every status that is not 200
ServerError_4xx(status_code) == status_code >= 400

\* elif response.status_code >= 500
ServerError(status_code) == status_code >= 500

\* a wait that grows by one second per attempt
Backoff_linear(i) == i + 1

\* a wait that doubles one step early
Backoff_next(i) == 2 ^ (i + 1)

\* time.sleep(2 ** attempt): the seconds waited after the attempt of index i
Backoff(i) == 2 ^ i

\* the cap of len(top_links) < 3
MaxTopLinks == 3

\* the cap tested with <= for <
UnderCap_le(top_links) == Len(top_links) <= MaxTopLinks

\* len(top_links) < 3
UnderCap(top_links) == Len(top_links) < MaxTopLinks

\* the category test left out
CorrectCategory_any(item, category) == TRUE

\* lines 620-623: some subcat of item['categories'] has the category id
CorrectCategory(item, category) ==
    \E k \in DOMAIN item.categories : category = item.categories[k].categoryId

\* item.get('itemWebUrl')
ItemUrl(item) == IF "itemWebUrl" \in DOMAIN item THEN item.itemWebUrl ELSE None

\* an f-string field of a str or None
Str(x) == IF x = None THEN "None" ELSE x

\* campid filled with the tool id
AffiliateUrl_campid(item_url, affiliate) ==
    Str(item_url) \o "&mkcid=1&mkrid=" \o affiliate \o "&campid=10001&toolid=10001"

\* line 627
AffiliateUrl(item_url, affiliate) ==
    Str(item_url) \o "&mkcid=1&mkrid=" \o affiliate \o "&campid=" \o affiliate
        \o "&toolid=10001"

\* lines 618-628: the loop over item_summaries, top_links being the list so far
RECURSIVE TopLinks(_, _, _, _)
TopLinks(item_summaries, category, affiliate, top_links) ==
    IF item_summaries = <<>> THEN top_links
    ELSE LET item == Head(item_summaries)
             correct_category == CorrectCategory(item, category)
             item_url == ItemUrl(item)
         IN  TopLinks(Tail(item_summaries), category, affiliate,
                      IF correct_category /\ UnderCap(top_links)
                      THEN Append(top_links, AffiliateUrl(item_url, affiliate))
                      ELSE top_links)

\* lines 596-600
Endpoint(name, category) ==
    IF category # ""
    THEN EBAY_API_ENDPOINT \o "?q=" \o TupleStr(name) \o "&category_ids=" \o category
         \o "&aspect_filter=categoryId:" \o category
    ELSE EBAY_API_ENDPOINT

\* a response of requests.post
HttpResponse(status, items) == [raises |-> FALSE, status_code |-> status, body |-> items]

\* response before the first POST
NoResponse == [status_code |-> 0, body |-> <<>>]

\* str.capitalize() over the names of the model
Capitalize(name) ==
    CASE name = "jacket" -> "Jacket"
      [] name = "scarf" -> "Scarf"
      [] name = "coat" -> "Coat"
      [] OTHER -> name

\* lines 676-677: the numbered lines of the links from the i-th on
RECURSIVE LinkLines(_, _)
LinkLines(top_links, i) ==
    IF i > Len(top_links) THEN ""
    ELSE IndexStr(i) \o ". " \o top_links[i] \o "\n" \o LinkLines(top_links, i + 1)

\* lines 671-679: the SMS body of one concept
MessageBody(concept) ==
    LET top_links == IF "top_links" \in DOMAIN concept THEN concept.top_links ELSE <<>>
    IN  Capitalize(concept.concept_name) \o ":\n"
        \o (IF top_links # <<>> THEN LinkLines(top_links, 1) ELSE "No links found.\n")

-----------------------------------------------------------------------------
(* The inputs main() is run on *)

EBAY_AFFILIATE_ID == "AFF1"

S3_BUCKET_NAME == "wha7-bucket"

ImageJpeg == [type |-> "image", subtype |-> "jpeg"]

VideoMp4 == [type |-> "video", subtype |-> "mp4"]

Media(status, content_type) == [status_code |-> status, content_type |-> content_type]

\* the most recent message with media that client.messages.list can show
Messages ==
    { [sid |-> "SM1", from_ |-> "+15550001", media |-> <<Media(200, ImageJpeg)>>],
      [sid |-> "SM2", from_ |-> "+15550001",
       media |-> <<Media(200, VideoMp4), Media(200, ImageJpeg)>>],
      [sid |-> "SM3", from_ |-> "+15550002", media |-> <<Media(404, ImageJpeg)>>] }

\* recent_message = None: the list of Twilio shows no message with media
NoMessage == [sid |-> "", from_ |-> "", media |-> <<>>]

\* the bounding box of the regions of the model, in thousandths
Box == <<100, 200, 500, 600>>

\* what the apparel detection model answers for a photo
DetectOutcomes ==
    { Raise,
      Resp(<<>>),
      Resp(<< <<>> >>),
      Resp(<< <<Region(Box, <<Concept("Jacket", 9200000), Concept("scarf", 4000000)>>)>> >>),
      Resp(<< <<Region(Box, <<Concept("scarf", 8000000)>>)>> >>),
      Resp(<< <<Region(Box, <<Concept("jacket", 9200000), Concept("coat", 8000001)>>),
                Region(Box, <<Concept("SCARF", 9900000)>>)>> >>) }

\* what the face detection model answers for a photo
FaceOutcomes ==
    { Raise,
      Resp(<<>>),
      Resp(<< <<Region(Box, <<Concept("face", 7000000)>>)>> >>),
      Resp(<< <<Region(Box, <<Concept("face", 9900000)>>),
                Region(Box, <<Concept("face", 9000000)>>)>> >>) }

\* what the gender model answers for a face crop
GenderOutcomes ==
    { Raise,
      Resp(<<>>),
      Resp(<< <<>> >>),
      Resp(<< <<Concept("Masculine", 9000000), Concept("Feminine", 1000000)>> >>),
      Resp(<< <<Concept("Masculine", 2000000), Concept("Feminine", 8000000)>> >>) }

\* the outcomes of the (at most two) gender calls of a run
GenderScripts == {<<a, b>> : a \in GenderOutcomes, b \in GenderOutcomes}

\* what the apparel classification model answers for a crop
TagOutcomes ==
    { Raise,
      Resp(<<>>),
      Resp(<< <<>> >>),
      Resp(<< <<Concept("jacket", 9500000), Concept("coat", 3000000)>> >>) }

Listing(url, cats) ==
    [itemWebUrl |-> url, categories |-> [k \in DOMAIN cats |-> [categoryId |-> cats[k]]]]

\* the listings a search response is made of
ItemPool ==
    { Listing("https://ebay.com/itm/123", <<"63862">>),
      Listing("https://ebay.com/itm/456", <<"11450", "63862">>),
      Listing("https://ebay.com/itm/789", <<"11450">>) }

\* the itemSummaries main() is run on
MainBodies ==
    { <<>>,
      << Listing("https://ebay.com/itm/789", <<"11450">>),
         Listing("https://ebay.com/itm/123", <<"63862">>),
         Listing("https://ebay.com/itm/456", <<"11450", "63862">>) >> }

\* what requests.post does: it raises, or returns a status with a body
HttpOutcomes(bodies) ==
    {Raise} \cup {HttpResponse(404, <<>>), HttpResponse(503, <<>>)}
            \cup {HttpResponse(200, b) : b \in bodies}

-----------------------------------------------------------------------------
(* main(), step by step *)

searchVars == <<concept_name, category_id, endpoint, attempt, response, posts, sleeps>>

\* lines 706-713: process_twilio_messages downloads the media of the most recent
\* message with media, if there is one; main returns "" when there is none
ProcessTwilioMessages(inbox) ==
    /\ pc = "main"
    /\ \E recent_message \in inbox :
         IF recent_message = NoMessage
         THEN /\ message_data' = <<>>
              /\ pc' = "returned"
              /\ UNCHANGED folder
         ELSE /\ folder' = folder \cup SavedFiles(recent_message)
              /\ message_data' = MessageData(recent_message)
              /\ pc' = "list"
    /\ UNCHANGED <<image_data, gender, concepts, cur, searchVars, affiliate_id, calls, pollVars,
                   st_log, sent, error>>

\* line 713
UserPhone == CHOOSE n \in DOMAIN message_data : TRUE

\* line 716: list_image_paths over the folder of the sender, whatever it holds
ListImagePaths ==
    /\ pc = "list"
    /\ LET listed == {f \in folder : f.dir = UserPhone}
       IN  \/ /\ listed = {}
              /\ image_data' = <<>>
           \/ \E first \in listed :
                image_data' = list_image_paths(folder, UserPhone, first)
    /\ pc' = "s3"
    /\ UNCHANGED <<folder, message_data, gender, concepts, cur, searchVars,
                   affiliate_id, calls, pollVars, st_log, sent, error>>

\* file_name = path.split('/')[-1] of a path PathOf built
FileName(image_path, files) == (CHOOSE f \in files : PathOf(f) = image_path).name

\* line 717: s3_write_urls sets the url of every image (the uploads are taken to
\* succeed: S3 is outside the calls whose failure the pipeline is written to survive)
S3WriteUrls ==
    /\ pc = "s3"
    /\ image_data' =
         [i \in DOMAIN image_data |->
            [image_data[i] EXCEPT
               !.url = get_public_url(S3_BUCKET_NAME, FileName(image_data[i].image_path, folder))]]
    /\ cur' = 1
    /\ pc' = "analyze"
    /\ UNCHANGED <<folder, message_data, gender, concepts, searchVars, affiliate_id,
                   calls, pollVars,
                   st_log, sent, error>>

\* lines 430-437: analyze_images on the image number cur
AnalyzeImage(outcomes) ==
    /\ pc = "analyze"
    /\ cur <= Len(image_data)
    /\ \E out \in outcomes :
         IF out.raises
         THEN /\ st_log' = Append(st_log, "analyze_images")
              /\ UNCHANGED image_data
         ELSE /\ image_data' =
                   IF out.outputs # <<>>
                   THEN [image_data EXCEPT
                           ![cur] = SetKey(@, "prediction", [outputs |-> out.outputs])]
                   ELSE image_data
              /\ UNCHANGED st_log
    /\ cur' = cur + 1
    /\ UNCHANGED <<pc, folder, message_data, gender, concepts, searchVars,
                   affiliate_id, calls, pollVars, sent, error>>

\* line 438
AnalyzeReturn ==
    /\ pc = "analyze"
    /\ cur > Len(image_data)
    /\ pc' = "gender"
    /\ UNCHANGED <<folder, message_data, image_data, gender, concepts, cur, searchVars,
                   affiliate_id, calls, pollVars, st_log, sent, error>>

\* line 724: get_gender, the models answering as face_calls and gender_calls say
GetGender(faces, scripts) ==
    /\ pc = "gender"
    /\ \E face_calls \in [DOMAIN image_data -> faces], gender_calls \in scripts :
         LET r == get_gender(image_data, face_calls, gender_calls)
         IN  /\ gender' = r.result
             /\ st_log' = st_log \o r.log
    /\ pc' = "extract"
    /\ UNCHANGED <<folder, message_data, image_data, concepts, cur, searchVars,
                   affiliate_id, calls, pollVars, sent, error>>

\* get_gender on the answers held in calls, the calls made being recorded
GetGenderCalls ==
    /\ pc = "gender"
    /\ LET r == get_gender(image_data, calls.face, calls.gender)
       IN  /\ gender' = r.result
           /\ st_log' = st_log \o r.log
           /\ calls' = [calls EXCEPT !.face_used = r.face_used,
                                     !.gender_used = r.gender_used]
    /\ pc' = "extract"
    /\ UNCHANGED <<folder, message_data, image_data, concepts, cur, searchVars,
                   affiliate_id, pollVars, sent, error>>

\* line 729: extract_user_concepts
ExtractUserConcepts ==
    /\ pc = "extract"
    /\ IF ExtractRaises(image_data, UserPhone)
       THEN /\ pc' = "crashed"
            /\ error' = "KeyError: 'prediction'"
            /\ UNCHANGED <<concepts, cur>>
       ELSE \E crop_raises \in IF CropsInverted(image_data, UserPhone)
                                THEN {TRUE, FALSE} ELSE {FALSE} :
              IF crop_raises
              THEN /\ pc' = "crashed"
                   /\ error' = "ValueError"
                   /\ UNCHANGED <<concepts, cur>>
              ELSE /\ concepts' = extract_user_concepts(image_data, UserPhone)
                   /\ cur' = 1
                   /\ pc' = "tag"
                   /\ UNCHANGED error
    /\ UNCHANGED <<folder, message_data, image_data, gender, searchVars, affiliate_id,
                   calls, pollVars,
                   st_log, sent>>

\* lines 448-489: add_tags on the concept number cur
AddTag(outcomes) ==
    /\ pc = "tag"
    /\ cur <= Len(concepts)
    /\ \E out \in outcomes :
         IF out.raises
         THEN /\ st_log' = Append(st_log, "add_tags")
              /\ UNCHANGED concepts
         ELSE /\ concepts' =
                   IF out.outputs # <<>>
                   THEN [concepts EXCEPT ![cur] = SetKey(@, "tags", out.outputs[1])]
                   ELSE concepts
              /\ UNCHANGED st_log
    /\ cur' = cur + 1
    /\ UNCHANGED <<pc, folder, message_data, image_data, gender, searchVars,
                   affiliate_id, calls, pollVars, sent, error>>

\* lines 490 and 736: add_tags returns; main searches when the list is not empty
AddTagsReturn ==
    /\ pc = "tag"
    /\ cur > Len(concepts)
    /\ IF concepts # <<>>
       THEN pc' = "search" /\ cur' = 1
       ELSE pc' = "delete" /\ UNCHANGED cur
    /\ UNCHANGED <<folder, message_data, image_data, gender, concepts, searchVars,
                   affiliate_id, calls, pollVars, st_log, sent, error>>

-----------------------------------------------------------------------------
(* search_ebay_with_concepts, step by step *)

mainVars ==
    <<folder, message_data, image_data, gender, affiliate_id, calls, pollVars, st_log, sent>>

\* lines 585-601: the head of the loop body for the concept number cur;
\* concept['tags'] is a KeyError when add_tags did not set it
SearchBegin ==
    /\ pc = "search"
    /\ cur <= Len(concepts)
    /\ IF "tags" \notin DOMAIN concepts[cur]
       THEN /\ pc' = "crashed"
            /\ error' = "KeyError: 'tags'"
            /\ UNCHANGED searchVars
       ELSE LET name == <<gender, extract_concepts(concepts[cur].tags)>>
            IN  /\ concept_name' = name
                /\ category_id' = get_category(name)
                /\ endpoint' = Endpoint(name, get_category(name))
                /\ attempt' = 0
                /\ posts' = <<>>
                /\ sleeps' = <<>>
                /\ pc' = IF InRange(0) THEN "post" ELSE "parse"
                /\ UNCHANGED <<response, error>>
    /\ UNCHANGED <<mainVars, concepts, cur>>

\* lines 603-614: one round of the retry loop, attempt being its index
Post(bodies) ==
    /\ pc = "post"
    /\ \E out \in HttpOutcomes(bodies) :
         IF out.raises
         THEN /\ pc' = "crashed"
              /\ error' = "ConnectionError"
              /\ UNCHANGED <<response, posts, sleeps, attempt>>
         ELSE /\ response' = [status_code |-> out.status_code, body |-> out.body]
              /\ posts' = Append(posts, out.status_code)
              /\ UNCHANGED error
              /\ IF out.status_code = 200
                 THEN /\ pc' = "parse"
                      /\ UNCHANGED <<sleeps, attempt>>
                 ELSE IF ServerError(out.status_code)
                 THEN /\ sleeps' = Append(sleeps, Backoff(attempt))
                      /\ attempt' = attempt + 1
                      /\ pc' = IF InRange(attempt + 1) THEN "post" ELSE "parse"
                 ELSE /\ pc' = "parse"
                      /\ UNCHANGED <<sleeps, attempt>>
    /\ UNCHANGED <<mainVars, concepts, cur, concept_name, category_id, endpoint>>

\* lines 615-632: the links of the concept number cur
Parse ==
    /\ pc = "parse"
    /\ concepts' =
         [concepts EXCEPT
            ![cur] = SetKey(@, "top_links",
                            IF response.status_code = 200
                            THEN TopLinks(response.body, category_id, affiliate_id, <<>>)
                            ELSE <<>>)]
    /\ cur' = cur + 1
    /\ pc' = "search"
    /\ UNCHANGED <<mainVars, searchVars, error>>

\* line 633
SearchReturn ==
    /\ pc = "search"
    /\ cur > Len(concepts)
    /\ pc' = "searched"
    /\ UNCHANGED <<mainVars, concepts, cur, searchVars, error>>

-----------------------------------------------------------------------------
(* The end of main() *)

\* line 756: send_results_via_twilio creates one SMS per concept (a create that
\* raises is caught at line 689 and only loses that SMS; every create is taken to
\* succeed here)
SendResults ==
    /\ pc = "searched"
    /\ sent' = sent \o [i \in DOMAIN concepts |->
                          [to |-> UserPhone, body |-> MessageBody(concepts[i])]]
    /\ pc' = "delete"
    /\ UNCHANGED <<folder, message_data, image_data, gender, concepts, cur, searchVars,
                   affiliate_id, calls, pollVars, st_log, error>>

\* lines 759-761: delete_photos removes FOLDER_PATH, and main returns
DeletePhotos ==
    /\ pc = "delete"
    /\ folder' = {}
    /\ pc' = "returned"
    /\ UNCHANGED <<message_data, image_data, gender, concepts, cur, searchVars,
                   affiliate_id, calls, pollVars, st_log, sent, error>>

\* the polling loop is left out: its variables keep their start values
NoPolling ==
    /\ twilio = 0
    /\ polled = EmptyStr
    /\ last_message = EmptyStr
    /\ processed = <<>>

\* main() is entered from the polling loop, which has just run
\* process_twilio_messages itself: the folder holds what that call saved
Init ==
    /\ pc = "main"
    /\ folder \in {SavedFiles(msg) : msg \in Messages}
    /\ message_data = <<>>
    /\ image_data = <<>>
    /\ gender = Unset
    /\ concepts = <<>>
    /\ cur = 1
    /\ concept_name = <<Unset, Unset>>
    /\ category_id = Unset
    /\ endpoint = Unset
    /\ attempt = 0
    /\ response = NoResponse
    /\ affiliate_id = EBAY_AFFILIATE_ID
    /\ calls = NoCalls
    /\ posts = <<>>
    /\ sleeps = <<>>
    /\ st_log = <<>>
    /\ sent = <<>>
    /\ error = NoError
    /\ NoPolling

Next ==
    \/ ProcessTwilioMessages(Messages \cup {NoMessage})
    \/ ListImagePaths
    \/ S3WriteUrls
    \/ AnalyzeImage(DetectOutcomes)
    \/ AnalyzeReturn
    \/ GetGender(FaceOutcomes, GenderScripts)
    \/ ExtractUserConcepts
    \/ AddTag(TagOutcomes)
    \/ AddTagsReturn
    \/ SearchBegin
    \/ Post(MainBodies)
    \/ Parse
    \/ SearchReturn
    \/ SendResults
    \/ DeletePhotos

Spec == Init /\ [][Next]_vars

-----------------------------------------------------------------------------
(* search_ebay_with_concepts on its own: every response of up to MaxItems listings *)

MaxItems == 4

\* the sequences over S of length at most n
SeqsUpTo(S, n) == UNION {[1..k -> S] : k \in 0..n}

SearchBodies == SeqsUpTo(ItemPool, MaxItems)

AffiliateIds == {"AFF1", "AFF2"}

\* a concept as extract_user_concepts builds it
Candidate(name) ==
    [concept_image |-> crop_image("twilio_pics/+15550001/SM1_0.png",
                                  Box[1], Box[2], Box[3], Box[4]),
     concept_name |-> name]

\* the concept lists the search is run on: add_tags set tags to the concepts of the
\* classification model, to an empty list, or not at all
SearchInputs ==
    LET tagged == SetKey(Candidate("jacket"), "tags",
                         <<Concept("jacket", 9500000), Concept("coat", 3000000)>>)
        empty == SetKey(Candidate("scarf"), "tags", <<>>)
        untagged == Candidate("coat")
    IN  { <<tagged>>, <<tagged, empty>>, <<empty, tagged>>, <<tagged, untagged>> }

InitSearch ==
    /\ pc = "search"
    /\ concepts \in SearchInputs
    /\ gender \in {"women", None}
    /\ affiliate_id \in AffiliateIds
    /\ calls = NoCalls
    /\ folder = {}
    /\ message_data = <<>>
    /\ image_data = <<>>
    /\ cur = 1
    /\ concept_name = <<Unset, Unset>>
    /\ category_id = Unset
    /\ endpoint = Unset
    /\ attempt = 0
    /\ response = NoResponse
    /\ posts = <<>>
    /\ sleeps = <<>>
    /\ st_log = <<>>
    /\ sent = <<>>
    /\ error = NoError
    /\ NoPolling

NextSearch ==
    \/ SearchBegin
    \/ Post(SearchBodies)
    \/ Parse
    \/ SearchReturn

SpecSearch == InitSearch /\ [][NextSearch]_vars

-----------------------------------------------------------------------------
(* extract_user_concepts on its own: every prediction of up to MaxRegions regions *)
(* of up to MaxConcepts concepts each                                             *)

MaxRegions == 2

MaxConcepts == 2

\* a concept above the threshold, one exactly on it, one just above it
ConceptPool ==
    { Concept("Jacket", 9200000), Concept("scarf", 8000000), Concept("coat", 8000001) }

RegionPool == {Region(Box, cs) : cs \in SeqsUpTo(ConceptPool, MaxConcepts)}

\* the photo of message SM1 as list_image_paths and s3_write_urls leave it
Photo ==
    [phone_number |-> "+15550001",
     image_path |-> "twilio_pics/+15550001/SM1_0.png",
     url |-> get_public_url(S3_BUCKET_NAME, "SM1_0.png")]

\* image_data as analyze_images leaves it: no prediction key when the call raised or
\* had no outputs
ExtractInputs ==
    {<<Photo>>}
    \cup {<<SetKey(Photo, "prediction", [outputs |-> <<regions>>])>> :
             regions \in SeqsUpTo(RegionPool, MaxRegions)}

InitExtract ==
    /\ pc = "extract"
    /\ image_data \in ExtractInputs
    /\ message_data = [n \in {"+15550001"} |->
                         <<[media_path |-> <<"twilio_pics/+15550001/SM1_0.png">>,
                            file_names |-> <<"SM1_0.png">>]>>]
    /\ folder = {[dir |-> "+15550001", name |-> "SM1_0.png", ext |-> "png"]}
    /\ gender \in {"men", "women", None}
    /\ affiliate_id = EBAY_AFFILIATE_ID
    /\ calls = NoCalls
    /\ concepts = <<>>
    /\ cur = 1
    /\ concept_name = <<Unset, Unset>>
    /\ category_id = Unset
    /\ endpoint = Unset
    /\ attempt = 0
    /\ response = NoResponse
    /\ posts = <<>>
    /\ sleeps = <<>>
    /\ st_log = <<>>
    /\ sent = <<>>
    /\ error = NoError
    /\ NoPolling

NextExtract == ExtractUserConcepts

SpecExtract == InitExtract /\ [][NextExtract]_vars

-----------------------------------------------------------------------------
(* get_category on its own: every key of the table, and keys that are not in it *)

TableGenders == {e[1] : e \in CONCEPT_TO_CATEGORY}

TableConcepts == {e[2] : e \in CONCEPT_TO_CATEGORY}

\* the tuples line 593 can build, and more: get_gender returns men, women or None,
\* extract_concepts a name of the classification model or None
CategoryInputs ==
    (TableGenders \cup {None, "kids"})
        \X (TableConcepts \cup {None, "", "Jacket", " jacket", "spacesuit"})

\* line 595
GetCategory ==
    /\ pc = "category"
    /\ category_id' = get_category(concept_name)
    /\ pc' = "category_done"
    /\ UNCHANGED <<mainVars, concepts, cur, concept_name, endpoint, attempt, response,
                   posts, sleeps, error>>

InitCategory ==
    /\ pc = "category"
    /\ concept_name \in CategoryInputs
    /\ category_id = Unset
    /\ folder = {}
    /\ message_data = <<>>
    /\ image_data = <<>>
    /\ gender = Unset
    /\ affiliate_id = EBAY_AFFILIATE_ID
    /\ calls = NoCalls
    /\ concepts = <<>>
    /\ cur = 1
    /\ endpoint = Unset
    /\ attempt = 0
    /\ response = NoResponse
    /\ posts = <<>>
    /\ sleeps = <<>>
    /\ st_log = <<>>
    /\ sent = <<>>
    /\ error = NoError
    /\ NoPolling

NextCategory == GetCategory

SpecCategory == InitCategory /\ [][NextCategory]_vars

-----------------------------------------------------------------------------
(* Properties of search_ebay_with_concepts, under SpecSearch *)

\* every POST of the current candidate was answered 503
All503 == posts # <<>> /\ \A k \in DOMAIN posts : posts[k] = 503

\* the loop body of the concept cur - 1 has just ended: response and category_id
\* are still those of that concept
Parsed == pc \in {"search", "searched"} /\ cur > 1

\* the links recorded for the concept whose loop body has just ended
LastLinks == concepts[cur - 1].top_links

\* C1: a search whose POST is answered 503 on every attempt issues exactly 3 POSTs,
\* never a 4th, then records an empty top_links for the candidate, and no exception
\* is raised
C1_RetryCap ==
    /\ Len(posts) <= 3
    /\ All503 /\ pc = "post" => Len(posts) < 3
    /\ All503 /\ pc = "parse" => Len(posts) = 3 /\ error = NoError
    /\ All503 /\ Parsed =>
          /\ Len(posts) = 3
          /\ "top_links" \in DOMAIN concepts[cur - 1]
          /\ LastLinks = <<>>
          /\ error = NoError

\* three POSTs answered 503, the candidate left with no links, the loop gone on
C1_Witness ==
    /\ Parsed
    /\ posts = <<503, 503, 503>>
    /\ LastLinks = <<>>
    /\ error = NoError

\* C4: a candidate whose search fails, by a final status other than 200 or by the
\* request raising, gets top_links = [] and the batch goes on: the run is never
\* ended by the request's exception
C4_SearchFailureIsolated ==
    /\ error # "ConnectionError"
    /\ Parsed /\ response.status_code # 200 =>
          "top_links" \in DOMAIN concepts[cur - 1] /\ LastLinks = <<>>

\* the listing reports the category id among its categories
ReportsCategory(item, category) ==
    \E k \in DOMAIN item.categories : item.categories[k].categoryId = category

\* C8: every link of top_links was built from a listing of the 200 response whose
\* categories hold the category id resolved for the candidate
C8_CategoryRefilter ==
    Parsed =>
        \A j \in DOMAIN LastLinks :
            \E k \in DOMAIN response.body :
                /\ response.status_code = 200
                /\ ReportsCategory(response.body[k], category_id)
                /\ LastLinks[j] = AffiliateUrl(response.body[k].itemWebUrl, affiliate_id)

\* four listings of which two report the category: two links
C8_Witness ==
    /\ Parsed
    /\ response.status_code = 200
    /\ Len(response.body) = 4
    /\ Cardinality({k \in DOMAIN response.body :
                       ReportsCategory(response.body[k], category_id)}) = 2
    /\ Len(LastLinks) = 2

\* the listings of the response that report the category, in response order
Matching == SelectSeq(response.body, LAMBDA item : ReportsCategory(item, category_id))

\* C9: on a 200 response with m matching listings, top_links is the first min(3, m)
\* of them in response order; it never holds more than 3 links
C9_FirstThreeInOrder ==
    /\ \A i \in DOMAIN concepts :
          "top_links" \in DOMAIN concepts[i] => Len(concepts[i].top_links) <= 3
    /\ Parsed /\ response.status_code = 200 =>
          LET m == Len(Matching)
              n == IF m < 3 THEN m ELSE 3
          IN  /\ Len(LastLinks) = n
              /\ \A j \in 1..n :
                    LastLinks[j] = AffiliateUrl(Matching[j].itemWebUrl, affiliate_id)

\* four matching listings, the first two of them different: three links
C9_Witness ==
    /\ Parsed
    /\ response.status_code = 200
    /\ Len(Matching) = 4
    /\ Matching[1] # Matching[2]
    /\ Len(LastLinks) = 3

\* C10: every link is the listing's itemWebUrl followed by
\* &mkcid=1&mkrid=<A>&campid=<A>&toolid=10001, <A> being the caller's affiliate id
C10_AffiliateShape ==
    Parsed =>
        \A j \in DOMAIN LastLinks :
            \E k \in DOMAIN response.body :
                LastLinks[j] = response.body[k].itemWebUrl \o "&mkcid=1&mkrid="
                                 \o affiliate_id \o "&campid=" \o affiliate_id
                                 \o "&toolid=10001"

\* the link of listing 123 for affiliate AFF1
C10_Witness ==
    /\ Parsed
    /\ affiliate_id = "AFF1"
    /\ LastLinks # <<>>
    /\ LastLinks[1] = "https://ebay.com/itm/123&mkcid=1&mkrid=AFF1&campid=AFF1&toolid=10001"

-----------------------------------------------------------------------------
(* Properties of extract_user_concepts, under SpecExtract *)

\* the regions the detection model reported for the photo
DetectedRegions ==
    IF "prediction" \in DOMAIN image_data[1]
    THEN image_data[1].prediction.outputs[1]
    ELSE <<>>

\* the <<region, concept>> positions of the prediction
Positions ==
    UNION {{<<r, k>> : k \in DOMAIN DetectedRegions[r].concepts} : r \in DOMAIN DetectedRegions}

ValueAt(p) == DetectedRegions[p[1]].concepts[p[2]].value

\* C6: extraction keeps a concept if and only if its confidence is strictly greater
\* than 0.8: there is one candidate for each concept above 0.8, and none for a
\* concept at exactly 0.8 or below
C6_StrictThreshold ==
    pc = "tag" =>
        LET above == {p \in Positions : ValueAt(p) > THRESHOLD}
        IN  /\ Len(concepts) = Cardinality(above)
            /\ {concepts[i].concept_name : i \in DOMAIN concepts}
                 = {Lower(DetectedRegions[p[1]].concepts[p[2]].name) : p \in above}

\* a region with a concept at exactly 0.8 and one at 0.8000001: one candidate
C6_Witness ==
    /\ pc = "tag"
    /\ Len(DetectedRegions) = 1
    /\ \E p \in Positions : ValueAt(p) = 8000000
    /\ \E p \in Positions : ValueAt(p) = 8000001
    /\ Cardinality(Positions) = 2
    /\ Len(concepts) = 1
    /\ concepts[1].concept_name = "coat"

-----------------------------------------------------------------------------
(* Properties of get_category, under SpecCategory *)

\* C7: get_category is total: for every (gender, concept), None included, it
\* returns the value of the table when the exact key is there and "11450" when it
\* is not; it does not raise and what it returns is never empty or None
C7_CategoryTotal ==
    pc = "category_done" =>
        /\ error = NoError
        /\ category_id \notin {"", None, Unset}
        /\ \/ \E e \in CONCEPT_TO_CATEGORY :
                /\ e[1] = concept_name[1]
                /\ e[2] = concept_name[2]
                /\ category_id = e[3]
           \/ /\ \A e \in CONCEPT_TO_CATEGORY :
                   e[1] # concept_name[1] \/ e[2] # concept_name[2]
              /\ category_id = "11450"

\* the key (None, None), which the table does not hold, resolved to the default
C7_Witness ==
    /\ pc = "category_done"
    /\ concept_name = <<None, None>>
    /\ category_id = "11450"

-----------------------------------------------------------------------------
(* Properties of main(), under Spec *)

\* the tagging model raised for some concept
TagRaised == \E k \in DOMAIN st_log : st_log[k] = "add_tags"

\* main() is over: it returned or an exception ended it
RunEnded == pc \in {"returned", "crashed"}

\* C2: when the tagging call raises for some candidate, every candidate still ends
\* the run with top_links set by its own search, the one whose tagging raised
\* included; no request of the search raising is assumed
C2_TagFailureIsolated ==
    RunEnded /\ TagRaised /\ error # "ConnectionError" =>
        \A i \in DOMAIN concepts : "top_links" \in DOMAIN concepts[i]

\* the detection call left some image without a prediction
DetectionFailed == \E i \in DOMAIN image_data : "prediction" \notin DOMAIN image_data[i]

\* C3: an image whose detection call failed counts as an image with no regions:
\* extraction yields no candidate for it and the run goes on without an error
C3_DetectionFailureTolerated ==
    DetectionFailed /\ pc \notin {"main", "list", "s3", "analyze", "gender", "extract"} =>
        pc # "crashed" /\ concepts = <<>>

\* C5: whatever external calls fail, the run reaches its end state and is never
\* ended by an uncaught error
C5_NoUncaughtError == pc # "crashed" /\ error = NoError

\* C11: the retry loop stops at the first response that is not a 5xx: every POST
\* but the last was answered 5xx and another POST is pending only after a 5xx, so
\* a first answer below 500 makes exactly one attempt, and 503 followed by 200
\* makes exactly two attempts, the links being parsed from the 200 response
C11_StopsAtFirstNon5xx ==
    /\ \A k \in DOMAIN posts : k < Len(posts) => posts[k] >= 500
    /\ pc = "post" => \A k \in DOMAIN posts : posts[k] >= 500
    /\ posts # <<>> /\ posts[1] < 500 => Len(posts) = 1
    /\ Len(posts) >= 2 /\ posts[1] >= 500 /\ posts[2] < 500 => Len(posts) = 2
    /\ Parsed /\ posts = <<503, 200>> =>
          /\ response.status_code = 200
          /\ LastLinks = TopLinks(response.body, category_id, affiliate_id, <<>>)

\* C11: a 503 then a 200 whose listings gave links, after exactly two POSTs
C11_Witness ==
    /\ Parsed
    /\ posts = <<503, 200>>
    /\ LastLinks # <<>>

\* C12: the wait after the attempt of 0-based index k answered 5xx is 2^k seconds:
\* one wait per 5xx answer, the waits being 1, 2, 4 in this order, so 1 s lies
\* between attempts 1 and 2 and 2 s between attempts 2 and 3
C12_BackoffSchedule ==
    /\ Len(sleeps) = Cardinality({k \in DOMAIN posts : posts[k] >= 500})
    /\ \A k \in DOMAIN sleeps : sleeps[k] = <<1, 2, 4>>[k]
    /\ Len(posts) >= 2 => sleeps[1] = 1
    /\ Len(posts) >= 3 => sleeps[2] = 2

\* C12: three attempts, separated by waits of 1 s and 2 s
C12_Witness ==
    /\ posts = <<503, 503, 200>>
    /\ sleeps = <<1, 2>>

\* the request of the concept cur has been built and its retry loop is running
Searching == pc \in {"post", "parse"}

\* C13: a candidate whose tagging gave no usable label, the tags being unset or
\* holding no concept name, is searched under its own concept_name: the search
\* does not end on the missing key, and the name used for the query term and for
\* the category lookup is the candidate's concept_name
C13_FallbackToConceptName ==
    /\ error # "KeyError: 'tags'"
    /\ Searching /\ extract_concepts(concepts[cur].tags) = None =>
          /\ concept_name[2] = concepts[cur].concept_name
          /\ category_id = get_category(<<gender, concepts[cur].concept_name>>)

\* the request URL the specification describes for a garment label and a category
ScopedEndpoint(label, category) ==
    EBAY_API_ENDPOINT \o "?q=" \o label \o "&category_ids=" \o category
    \o "&aspect_filter=categoryId:" \o category

\* C14: the request of a candidate with a tag label, the gender being known,
\* carries the label alone as its query text q, and the category id resolved
\* from (gender, label) as category_ids and as the categoryId of aspect_filter
C14_CategoryScopedRequest ==
    Searching /\ gender # None /\ concept_name[2] # None =>
        /\ category_id = get_category(<<gender, concept_name[2]>>)
        /\ endpoint = ScopedEndpoint(concept_name[2], category_id)

-----------------------------------------------------------------------------
(* get_gender alone, on a list of images and on scripted model answers *)

\* the most images of a list
MaxImages == 2

\* the number of scripted gender answers: a gender call past the script finds no
\* answer, as a response without outputs
MaxCalls == 3

\* the image number i of the list, saved and published
GenderPhoto(i) ==
    [phone_number |-> "+15550001",
     image_path |-> "twilio_pics/+15550001/SM1_" \o IndexStr(i - 1) \o ".png",
     url |-> get_public_url(S3_BUCKET_NAME, "SM1_" \o IndexStr(i - 1) \o ".png")]

\* the lists of images get_gender is run on
GenderInputs == {[i \in 1..n |-> GenderPhoto(i)] : n \in 0..MaxImages}

InitGender ==
    /\ pc = "gender"
    /\ image_data \in GenderInputs
    /\ calls \in {[face |-> f, gender |-> g, face_used |-> 0, gender_used |-> 0] :
                    f \in [DOMAIN image_data -> FaceOutcomes],
                    g \in [1..MaxCalls -> GenderOutcomes]}
    /\ message_data = <<>>
    /\ folder = {}
    /\ gender = Unset
    /\ affiliate_id = EBAY_AFFILIATE_ID
    /\ concepts = <<>>
    /\ cur = 1
    /\ concept_name = <<Unset, Unset>>
    /\ category_id = Unset
    /\ endpoint = Unset
    /\ attempt = 0
    /\ response = NoResponse
    /\ posts = <<>>
    /\ sleeps = <<>>
    /\ st_log = <<>>
    /\ sent = <<>>
    /\ error = NoError
    /\ NoPolling

NextGender == GetGenderCalls

SpecGender == InitGender /\ [][NextGender]_vars

\* get_gender has returned
GenderReturned == pc = "extract"

\* the last gender call made returned a list of labels: get_gender returned on it
Classified ==
    /\ GenderReturned
    /\ calls.gender_used > 0
    /\ GenderCallSucceeds(calls.gender[calls.gender_used])

\* the labels of the greatest confidence in a list of labels
HighestLabels(labels) ==
    {labels[i].name : i \in {i \in DOMAIN labels :
                               \A j \in DOMAIN labels : labels[i].value >= labels[j].value}}

\* C15: when a gender classification succeeded, the value returned is 'men' if
\* and only if the label of the highest confidence in the answer of that call is
\* Masculine, and 'women' for every other top label
C15_MenIffMasculineTop ==
    Classified =>
        LET top == HighestLabels(calls.gender[calls.gender_used].outputs[1])
        IN  /\ gender \in {"men", "women"}
            /\ gender = "men" <=> top = {"Masculine"}

\* C15: 'women' returned on an answer whose first label is Masculine and whose
\* top label is Feminine, after an earlier gender call failed
C15_Witness ==
    /\ Classified
    /\ calls.gender_used = 2
    /\ calls.gender[2].outputs[1][1].name = "Masculine"
    /\ HighestLabels(calls.gender[2].outputs[1]) = {"Feminine"}
    /\ gender = "women"

\* the faces above the threshold in the answer of one face call: none when the call
\* raised or had no outputs
FacesOf(face) ==
    IF face.raises \/ face.outputs = <<>> THEN 0 ELSE FacePassCount(face.outputs[1])

\* the faces above the threshold in the images 1..i, in image and region order
RECURSIVE FacesThrough(_)
FacesThrough(i) == IF i = 0 THEN 0 ELSE FacesThrough(i - 1) + FacesOf(calls.face[i])

\* the gender answers that classify a face: answer k is for the k-th face, as long
\* as no earlier answer classified
Classifying ==
    {k \in 1..FacesThrough(Len(image_data)) :
        k <= Len(calls.gender) /\ GenderCallSucceeds(calls.gender[k])}

\* the first answer that classifies a face
FirstClassifying == CHOOSE k \in Classifying : \A j \in Classifying : k <= j

\* C16: when some image of the list yields a successful gender classification,
\* whatever failed on the images before it, the value returned is derived from the
\* first such classification in image and region order, and no gender call and no
\* face call is made after it
C16_FirstClassificationWins ==
    GenderReturned /\ Classifying # {} =>
        LET k == FirstClassifying
            top == HighestLabels(calls.gender[k].outputs[1])
        IN  /\ gender = IF top = {"Masculine"} THEN "men" ELSE "women"
            /\ calls.gender_used = k
            /\ FacesThrough(calls.face_used) >= k
            /\ FacesThrough(calls.face_used - 1) < k

\* the one default of a run in which no classification succeeded: the value of
\* the except clause of line 570
DefaultGender == "women"

\* C17: in every case of total failure (no face above the threshold in any image,
\* the face call raising, every gender call raising or without outputs) get_gender
\* returns one and the same default value
C17_OneDefault ==
    GenderReturned /\ image_data # <<>> /\ ~Classified => gender = DefaultGender

-----------------------------------------------------------------------------
(* extract_user_concepts and crop_image on photos of two sizes and on one or   *)
(* two regions whose boxes are proper, empty or inverted                        *)

\* a box whose products with the sides of a 1000 x 500 image fall between pixels
BoxOffGrid == <<333, 125, 667, 875>>

\* a box with bottom_row = top_row: no area
BoxFlat == <<300, 200, 300, 600>>

\* a box with right_col < left_col
BoxInverted == <<100, 600, 500, 200>>

\* <<top_row, left_col, bottom_row, right_col>> of the regions, in thousandths
Boxes == { Box, BoxOffGrid, BoxFlat, BoxInverted }

\* the photo of message SM2, of another size
Photo2 ==
    [phone_number |-> "+15550001",
     image_path |-> "twilio_pics/+15550001/SM2_1.png",
     url |-> get_public_url(S3_BUCKET_NAME, "SM2_1.png")]

CropRegionPool == {Region(b, cs) : b \in Boxes, cs \in SeqsUpTo(ConceptPool, MaxConcepts)}

\* one photo with the prediction of one region, or of two
CropInputs ==
    {<<SetKey(photo, "prediction", [outputs |-> <<regions>>])>> :
        photo \in {Photo, Photo2},
        regions \in {<<r>> : r \in CropRegionPool}
                    \cup {<<r1, r2>> : r1 \in CropRegionPool, r2 \in CropRegionPool}}

InitCrop ==
    /\ pc = "extract"
    /\ image_data \in CropInputs
    /\ message_data = [n \in {"+15550001"} |-> <<>>]
    /\ folder = {}
    /\ gender = None
    /\ affiliate_id = EBAY_AFFILIATE_ID
    /\ calls = NoCalls
    /\ concepts = <<>>
    /\ cur = 1
    /\ concept_name = <<Unset, Unset>>
    /\ category_id = Unset
    /\ endpoint = Unset
    /\ attempt = 0
    /\ response = NoResponse
    /\ posts = <<>>
    /\ sleeps = <<>>
    /\ st_log = <<>>
    /\ sent = <<>>
    /\ error = NoError
    /\ NoPolling

NextCrop == ExtractUserConcepts

SpecCrop == InitCrop /\ [][NextCrop]_vars

\* the positions of the concepts above the threshold
Above == {p \in Positions : ValueAt(p) > THRESHOLD}

\* position p comes before q in region order, then concept order
Before(p, q) == p[1] < q[1] \/ (p[1] = q[1] /\ p[2] <= q[2])

\* the index in concepts of the candidate of position p of Above
Rank(p) == Cardinality({q \in Above : Before(q, p)})

\* C18: each region gives one candidate for each of its concepts above 0.8 and no
\* other: the candidates are separate entries, in order, each with the crop of
\* the box of its own region and with its own concept name in lower case
C18_OneCandidatePerConcept ==
    pc = "tag" =>
        /\ Len(concepts) = Cardinality(Above)
        /\ \A r \in DOMAIN DetectedRegions :
             Cardinality({Rank(p) : p \in {q \in Above : q[1] = r}})
               = Cardinality({k \in DOMAIN DetectedRegions[r].concepts :
                                DetectedRegions[r].concepts[k].value > THRESHOLD})
        /\ \A p \in Above :
             LET box == DetectedRegions[p[1]].bounding_box
                 name == DetectedRegions[p[1]].concepts[p[2]].name
             IN  /\ concepts[Rank(p)].concept_name
                      = (IF name = "Jacket" THEN "jacket" ELSE name)
                 /\ concepts[Rank(p)].concept_image
                      = crop_image(image_data[1].image_path,
                                   box[1], box[2], box[3], box[4])

\* C18: two regions of different boxes, the first with two concepts above 0.8,
\* one of them named in capitals: three candidates, two of the same crop
C18_Witness ==
    /\ pc = "tag"
    /\ Len(DetectedRegions) = 2
    /\ DetectedRegions[1].bounding_box # DetectedRegions[2].bounding_box
    /\ Len(concepts) = 3
    /\ concepts[1].concept_name = "jacket"
    /\ concepts[2].concept_name = "coat"
    /\ concepts[1].concept_image = concepts[2].concept_image
    /\ concepts[3].concept_image # concepts[1].concept_image

\* c is the pixel coordinate nearest to x thousandths
Nearest(c, x) == 1000 * c - x <= 500 /\ x - 1000 * c <= 500

\* C19: the crop rectangle of a candidate is (left*W, top*H, right*W, bottom*H) for
\* the box (top, left, bottom, right) of its region and the width W and height H
\* of the image, to the nearest pixel; for W = 1000, H = 500 and the box
\* (0.1, 0.2, 0.5, 0.6) it is (200, 50)-(600, 250), of size 400 x 200
C19_CropGeometry ==
    pc = "tag" =>
        \A p \in Above :
            LET box == DetectedRegions[p[1]].bounding_box
                W == ImageSize(image_data[1].image_path)[1]
                H == ImageSize(image_data[1].image_path)[2]
                crop == concepts[Rank(p)].concept_image.crop
            IN  /\ Nearest(crop[1], box[2] * W)
                /\ Nearest(crop[2], box[1] * H)
                /\ Nearest(crop[3], box[4] * W)
                /\ Nearest(crop[4], box[3] * H)
                /\ W = 1000 /\ H = 500 /\ box = <<100, 200, 500, 600>> =>
                      /\ crop = <<200, 50, 600, 250>>
                      /\ crop[3] - crop[1] = 400
                      /\ crop[4] - crop[2] = 200

\* C19: the candidate of the 1000 x 500 photo and of the box (0.1, 0.2, 0.5, 0.6)
C19_Witness ==
    /\ pc = "tag"
    /\ ImageSize(image_data[1].image_path) = <<1000, 500>>
    /\ DetectedRegions[1].bounding_box = <<100, 200, 500, 600>>
    /\ Len(concepts) >= 1
    /\ concepts[1].concept_image.crop = <<200, 50, 600, 250>>

\* C20: a box with bottom <= top or right <= left never yields a candidate: the
\* crop rectangle of every candidate has a positive width and a positive height
C20_DegenerateBoxRejected ==
    pc = "tag" =>
        \A i \in DOMAIN concepts :
            LET crop == concepts[i].concept_image.crop
            IN  crop[3] > crop[1] /\ crop[4] > crop[2]

-----------------------------------------------------------------------------
(* The waits of the retry loop, under SpecSearch *)

\* the retry loop of the concept has ended
LoopEnded == pc = "parse" \/ Parsed

\* C26 as stated: a wait is made only when another attempt follows it, so a
\* search answered 5xx on all 3 attempts waits 1 s and 2 s and does not wait
\* after its last attempt
C26_NoSleepAfterLast ==
    /\ LoopEnded /\ posts # <<>> => Len(sleeps) < Len(posts)
    /\ LoopEnded /\ All503 => sleeps = <<1, 2>>

\* C26 amended: a wait is made after every attempt answered 5xx, the last one
\* included, and after no other attempt: a search answered 5xx on all 3 attempts
\* waits 1 s, 2 s and 4 s, the last wait being followed by no attempt
C26_SleepAfterEvery5xx ==
    /\ Len(sleeps) = Cardinality({k \in DOMAIN posts : posts[k] >= 500})
    /\ LoopEnded /\ All503 => Len(posts) = 3 /\ sleeps = <<1, 2, 4>>

\* C26: three attempts answered 503, the loop over, three waits made
C26_Witness ==
    /\ pc = "parse"
    /\ posts = <<503, 503, 503>>
    /\ sleeps = <<1, 2, 4>>

-----------------------------------------------------------------------------
(* Properties of main(), under Spec *)

\* extract_user_concepts has returned its list
Extracted == pc \in {"tag", "search", "post", "parse", "searched", "delete", "returned"}

\* search_ebay_with_concepts has returned its list
Searched == pc \in {"searched", "delete", "returned"} /\ concepts # <<>>

\* one image whose prediction is one region with jacket at 0.92 and scarf at 0.4
OneJacketRegion ==
    /\ Len(image_data) = 1
    /\ Len(DetectedRegions) = 1
    /\ Len(DetectedRegions[1].concepts) = 2
    /\ DetectedRegions[1].concepts[1].name \in {"jacket", "Jacket"}
    /\ DetectedRegions[1].concepts[1].value = 9200000
    /\ DetectedRegions[1].concepts[2] = Concept("scarf", 4000000)

\* C21: one image with one region holding jacket at 0.92 and scarf at 0.4, the
\* gender 'women' and the tag 'jacket' give exactly one candidate, jacket, whose
\* category is "63862" and whose top_links has at most 3 entries
C21_EndToEnd ==
    OneJacketRegion /\ Extracted =>
        /\ Len(concepts) = 1
        /\ concepts[1].concept_name = "jacket"
        /\ /\ gender = "women"
           /\ "tags" \in DOMAIN concepts[1]
           /\ extract_concepts(concepts[1].tags) = "jacket"
           => /\ Searching \/ Searched => category_id = "63862"
              /\ Searched =>
                   /\ "top_links" \in DOMAIN concepts[1]
                   /\ Len(concepts[1].top_links) <= 3

\* C21: the scenario run to its end, two links found and one SMS sent
C21_Witness ==
    /\ OneJacketRegion
    /\ pc = "returned"
    /\ gender = "women"
    /\ Len(concepts) = 1
    /\ concepts[1].concept_name = "jacket"
    /\ extract_concepts(concepts[1].tags) = "jacket"
    /\ category_id = "63862"
    /\ Len(concepts[1].top_links) = 2
    /\ Len(sent) = 1

\* C22: the list search_ebay_with_concepts returns, and the SMS sent from it, keep
\* the order of detection: tagging and searching neither reorder, drop nor
\* duplicate a candidate, the i-th candidate being the i-th (region, concept) pair
\* above the threshold
C22_DetectionOrderKept ==
    Searched =>
        /\ Len(concepts) = Cardinality(Above)
        /\ \A p \in Above :
             LET region == DetectedRegions[p[1]]
             IN  /\ concepts[Rank(p)].concept_name = Lower(region.concepts[p[2]].name)
                 /\ concepts[Rank(p)].concept_image
                      = crop_image(image_data[1].image_path,
                                   region.bounding_box[1], region.bounding_box[2],
                                   region.bounding_box[3], region.bounding_box[4])
        /\ pc \in {"delete", "returned"} =>
             /\ Len(sent) = Len(concepts)
             /\ \A i \in DOMAIN sent : sent[i].body = MessageBody(concepts[i])

\* C22: two regions, three concepts above the threshold, delivered in their order
C22_Witness ==
    /\ pc = "returned"
    /\ Len(image_data) = 1
    /\ Len(DetectedRegions) = 2
    /\ Len(concepts) = 3
    /\ concepts[1].concept_name = "jacket"
    /\ concepts[2].concept_name = "coat"
    /\ concepts[3].concept_name = "scarf"
    /\ \A i \in 1..3 : "top_links" \in DOMAIN concepts[i]
    /\ Len(sent) = 3

\* C23: the stages of main() run in the order detect, extract, resolve gender,
\* tag, search, deliver: as long as extract_user_concepts has not returned,
\* get_gender has not been called, so gender is still unassigned
C23_ExtractBeforeGender ==
    pc \in {"main", "list", "s3", "analyze", "gender", "extract"} => gender = Unset

\* main() worked on a message and has returned
Processed == pc = "returned" /\ message_data # <<>>

\* C24: a run in which an image was analysed and no candidate survives still
\* sends a message to the sender: main() never returns from it with nothing sent
C24_NoItemsMessageSent ==
    Processed /\ image_data # <<>> /\ concepts = <<>> => sent # <<>>

\* list_image_paths and s3_write_urls have returned and the folder is not yet deleted
Listed == pc \in {"s3", "analyze", "gender"}

\* the paths of the image files downloaded from the message being processed
DownloadedImages ==
    {PathOf(f) : f \in {f \in folder : IsImagePath(f)}}
    \cap Range(message_data[UserPhone][1].media_path)

\* C30: every image downloaded from the message is listed by list_image_paths,
\* and so handed to the detection model: none is skipped
C30_EveryImageListed ==
    Listed =>
        \A path \in DownloadedImages :
            \E i \in DOMAIN image_data : image_data[i].image_path = path

-----------------------------------------------------------------------------
(* The values of get_gender against the keys of the category table *)

\* every value get_gender returns on the image list of the run, over the answers
\* of the face model and of the gender model
GenderValues ==
    {get_gender(image_data, f, g).result :
        f \in [DOMAIN image_data -> FaceOutcomes],
        g \in [1..MaxCalls -> GenderOutcomes]}

\* C27: every key (g, c) of CONCEPT_TO_CATEGORY can be looked up by some run: on
\* a list of at least one image its gender g, 'unisex' included, is a value
\* get_gender returns for some answers of the models
C27_TableGendersReturned ==
    image_data # <<>> => \A t \in CONCEPT_TO_CATEGORY : t[1] \in GenderValues

-----------------------------------------------------------------------------
(* The polling loop of the script (lines 772-781) around main(), the Twilio    *)
(* number receiving messages meanwhile                                          *)

\* the media messages the Twilio number receives, in order of arrival
Arrivals ==
    << CHOOSE m \in Messages : m.sid = "SM1",
       CHOOSE m \in Messages : m.sid = "SM2",
       CHOOSE m \in Messages : m.sid = "SM3" >>

\* the most recent message with media that client.messages.list shows
RecentInbox == IF twilio = 0 THEN {NoMessage} ELSE {Arrivals[twilio]}

\* one or more messages arrive: the most recent one is a later one of Arrivals
Arrive ==
    /\ pc # "crashed"
    /\ twilio < Len(Arrivals)
    /\ twilio' \in (twilio + 1)..Len(Arrivals)
    /\ UNCHANGED <<pc, folder, message_data, image_data, gender, concepts, cur,
                   searchVars, affiliate_id, calls, st_log, sent, error,
                   polled, last_message, processed>>

\* main() run whatever the message polled
Differs_always(data, last) == TRUE

\* line 779: if message_data != last_message
Differs(data, last) == data # last

\* the locals of main() at its entry
MainEntered ==
    /\ message_data' = <<>>
    /\ image_data' = <<>>
    /\ gender' = Unset
    /\ concepts' = <<>>
    /\ cur' = 1
    /\ concept_name' = <<Unset, Unset>>
    /\ category_id' = Unset
    /\ endpoint' = Unset
    /\ attempt' = 0
    /\ response' = NoResponse
    /\ posts' = <<>>
    /\ sleeps' = <<>>

\* lines 776-779: one polling iteration up to the call of main().
\* list(other_data.values())[0] is an IndexError on the empty dict
Poll ==
    /\ pc = "poll"
    /\ \E recent_message \in RecentInbox :
         IF recent_message = NoMessage
         THEN /\ pc' = "crashed"
              /\ error' = "IndexError"
              /\ UNCHANGED <<folder, polled, message_data, image_data, gender,
                             concepts, cur, searchVars>>
         ELSE LET other_data == MessageData(recent_message)
                  data == other_data[recent_message.from_]
              IN  /\ folder' = folder \cup SavedFiles(recent_message)
                  /\ polled' = data
                  /\ UNCHANGED error
                  /\ IF Differs(data, last_message)
                     THEN pc' = "main" /\ MainEntered
                     ELSE /\ pc' = "poll"
                          /\ UNCHANGED <<message_data, image_data, gender, concepts,
                                         cur, searchVars>>
    /\ UNCHANGED <<affiliate_id, calls, st_log, sent, twilio, last_message, processed>>

\* lines 707-711, 761 and 780-781: main() returns "" or the entry of its message,
\* which becomes last_message and message_data
MainReturns ==
    /\ pc = "returned"
    /\ LET value == IF message_data = <<>> THEN EmptyStr ELSE message_data[UserPhone]
       IN  /\ last_message' = value
           /\ polled' = value
           /\ processed' = Append(processed, value)
    /\ pc' = "poll"
    /\ UNCHANGED <<folder, message_data, image_data, gender, concepts, cur, searchVars,
                   affiliate_id, calls, st_log, sent, error, twilio>>

\* the answers of the models and of the marketplace while the loop is followed
PollDetect ==
    { Resp(<< <<Region(Box, <<Concept("scarf", 8000000)>>)>> >>),
      Resp(<< <<Region(Box, <<Concept("Jacket", 9200000), Concept("scarf", 4000000)>>)>> >>) }

PollFaces == { Resp(<< <<Region(Box, <<Concept("face", 9900000)>>)>> >>) }

PollScripts ==
    { << Resp(<< <<Concept("Masculine", 2000000), Concept("Feminine", 8000000)>> >>) >> }

PollTags == { Resp(<< <<Concept("jacket", 9500000), Concept("coat", 3000000)>> >>) }

PollBodies == { <<Listing("https://ebay.com/itm/123", <<"63862">>)>> }

InitPoll ==
    /\ pc = "poll"
    /\ folder = {}
    /\ message_data = <<>>
    /\ image_data = <<>>
    /\ gender = Unset
    /\ concepts = <<>>
    /\ cur = 1
    /\ concept_name = <<Unset, Unset>>
    /\ category_id = Unset
    /\ endpoint = Unset
    /\ attempt = 0
    /\ response = NoResponse
    /\ affiliate_id = EBAY_AFFILIATE_ID
    /\ calls = NoCalls
    /\ posts = <<>>
    /\ sleeps = <<>>
    /\ st_log = <<>>
    /\ sent = <<>>
    /\ error = NoError
    /\ twilio \in 0..1
    /\ polled = EmptyStr
    /\ last_message = EmptyStr
    /\ processed = <<>>

NextPoll ==
    \/ Arrive
    \/ Poll
    \/ ProcessTwilioMessages(RecentInbox)
    \/ ListImagePaths
    \/ S3WriteUrls
    \/ AnalyzeImage(PollDetect)
    \/ AnalyzeReturn
    \/ GetGender(PollFaces, PollScripts)
    \/ ExtractUserConcepts
    \/ AddTag(PollTags)
    \/ AddTagsReturn
    \/ SearchBegin
    \/ Post(PollBodies)
    \/ Parse
    \/ SearchReturn
    \/ SendResults
    \/ DeletePhotos
    \/ MainReturns

SpecPoll == InitPoll /\ [][NextPoll]_vars

\* main() is at work on a message it fetched
AtWork == pc \notin {"poll", "main", "crashed"} /\ message_data # <<>>

\* the files downloaded from the message main() is at work on
OwnMedia == Range(message_data[UserPhone][1].media_path)

\* C25: no state crosses messages: every image file that main() lists and
\* analyses for a message was downloaded from that message's own media, never a
\* file left in the sender's folder by an earlier message or an earlier poll
C25_OnlyOwnMediaAnalysed ==
    AtWork => \A i \in DOMAIN image_data : image_data[i].image_path \in OwnMedia

\* the number of times main() returned the value of index k of processed
TimesProcessed(k) == Cardinality({j \in DOMAIN processed : processed[j] = processed[k]})

\* C28: main() is entered from a polling iteration only when the data of the
\* most recent media message differs from the value the previous main()
\* returned, and no message data is processed twice
C28_PollingDeduplicates ==
    /\ [][pc = "poll" /\ pc' = "main" => polled' # last_message]_vars
    /\ [](\A k \in DOMAIN processed : TimesProcessed(k) = 1)

\* C28: a polling iteration that found the message already processed: the files
\* are downloaded again and main() is not entered
C28_Witness ==
    /\ pc = "poll"
    /\ processed # <<>>
    /\ polled = last_message
    /\ Len(processed) = 1
    /\ folder # {}

\* C29: a polling iteration that finds no message with media ends without an
\* uncaught error, and the loop goes on polling
C29_PollSurvivesNoMessage ==
    error # "IndexError"

=============================================================================
